---- MODULE Spec2Model ----
(***************************************************************************)
(* TD Sequential engine of poornull.indicators.tomdemark_sequential:       *)
(* calculate_tomdemark_sequential as a state machine.  One call copies and *)
(* sorts the caller's frame, validates the OHLC columns, initialises the   *)
(* TD_* columns and the scan state, then processes the bars one by one and *)
(* finally maps the phase names.                                           *)
(*                                                                         *)
(* A frame is [columns |-> <<names>>, data |-> [name |-> <<values>>]].     *)
(* Row k of the code (0-based) is element k+1 of a column.                 *)
(***************************************************************************)
EXTENDS Integers, Sequences, FiniteSets, TLC

\* ---------------------------------------------------------------- constants

\* TomDemarkSequentialPhase (IntEnum)
NONE == 0
BUY_SETUP == 1
SELL_SETUP == 2
BUY_COUNTDOWN == 3
SELL_COUNTDOWN == 4
BUY_SETUP_PERFECT == 5
SELL_SETUP_PERFECT == 6

max_setup_count == 9
max_countdown_count == 13

\* the warm-up is one bar short
required_samples_short == 6 - 1

required_samples == 6

\* np.nan: prices of the model are positive integers, -1 stands for NaN and
\* the comparisons below treat it as Python does (every comparison is false).
NaN == -1

open_col == "open"
high_col == "high"
low_col == "low"
close_col == "close"

\* ------------------------------------------------------------------- bounds

\* longest frame of the exhaustive family of short frames
ShortLen == 6
\* length of the trend frames
TrendLen == 30
\* largest wick (high - close and close - low) of a trend frame
MaxWick == 2
\* longest first run of a trend frame
MaxLead == 3
\* longest second run of a trend frame
MaxRun == 10
\* longest interruption of the run of a resumed frame
MaxGap == 2
\* spread of the lows (highs) of the last four bars of a setup frame
TailSpread == 2
\* bars appended to the scenario in the countdown frames
TailLen == 2
\* longest monotone frame
RampLen == 7
\* calls of one run of the repeated-call specification
MaxCalls == 3
\* longest frame of the family of frames that lack columns
MissLen == 3
\* base price of every frame (keeps every price positive)
BasePrice == 100

VARIABLES
    arg,               \* the frame the caller passes (the scan never writes it)
    pc,                \* "idle", "loop", "returned", "raised"
    df,                \* the working copy (line 83) with the TD_* columns
    i,                 \* loop index of line 122
    current_phase,     \* scan state, lines 115-119
    setup_count,
    countdown_count,
    support_price,
    resistance_price,
    returned,          \* [arg, out] of the completed calls, oldest first
    exc                \* the exception the call raised, "" while there is none

vars == <<arg, pc, df, i, current_phase, setup_count, countdown_count,
          support_price, resistance_price, returned, exc>>

\* -------------------------------------------------------------- frame access

Rows(d) == IF Len(d.columns) = 0 THEN 0 ELSE Len(d.data[d.columns[1]])

\* df.iloc[k][c] / df.at[k, c]
At(d, c, k) == d.data[c][k + 1]

\* df.at[k, c] = v
SetAt(d, c, k, v) == [d EXCEPT !.data[c][k + 1] = v]

\* Python's comparisons on floats that may be NaN
PyLt(a, b) == a # NaN /\ b # NaN /\ a < b
PyGt(a, b) == a # NaN /\ b # NaN /\ a > b
PyLe(a, b) == a # NaN /\ b # NaN /\ a <= b
PyGe(a, b) == a # NaN /\ b # NaN /\ a >= b

\* ------------------------------------------------------------------ sorting

\* names the loop of lines 87-91 accepts as the date column
DateLike == {"date", "Date", "trade_date", "timestamp", "Timestamp"}

RECURSIVE FirstDateCol(_)
FirstDateCol(cols) ==
    IF cols = <<>> THEN ""
    ELSE IF Head(cols) \in DateLike THEN Head(cols)
    ELSE FirstDateCol(Tail(cols))

RECURSIVE InsertIdx(_, _, _)
InsertIdx(p, j, keys) ==
    IF p = <<>> THEN <<j>>
    ELSE IF keys[j] < keys[Head(p)] THEN <<j>> \o p
    ELSE <<Head(p)>> \o InsertIdx(Tail(p), j, keys)

RECURSIVE ArgSortUpTo(_, _)
ArgSortUpTo(keys, n) ==
    IF n = 0 THEN <<>> ELSE InsertIdx(ArgSortUpTo(keys, n - 1), n, keys)

\* the row order sort_values produces (ascending)
ArgSort(keys) == ArgSortUpTo(keys, Len(keys))

\* df.sort_values(by=by).reset_index(drop=True).  Rows with equal keys keep
\* their order here; pandas' default sort does not promise that, and the
\* frames that are scanned have distinct keys (or equal rows under equal
\* keys), so the order of ties never shows.
sort_values(d, by) ==
    LET p == ArgSort(d.data[by])
    IN  [d EXCEPT !.data = [c \in DOMAIN d.data |->
                              [k \in 1..Len(p) |-> d.data[c][p[k]]]]]

\* line 97: df.columns[0] of a frame without columns is an IndexError
\* (no name is date-like, so the fallback is taken)
first_column_missing(d) ==
    FirstDateCol(d.columns) = "" /\ Len(d.columns) = 0

\* the frame is scanned in the order the caller passed it
SortFrameKeepsOrder(d) == d

\* lines 85-97
SortFrame(d) ==
    LET date_col == FirstDateCol(d.columns)
    IN  IF date_col # "" THEN sort_values(d, date_col)
        ELSE sort_values(d, d.columns[1])

\* lines 100-101
missing_cols(d) ==
    {c \in {open_col, high_col, low_col, close_col} :
        \A k \in 1..Len(d.columns) : d.columns[k] # c}

TDCols == <<"TD_Phase", "TD_Setup_Count", "TD_Countdown_Count",
            "TD_Support_Price", "TD_Resistance_Price">>

RECURSIVE AppendNew(_, _)
AppendNew(cols, new) ==
    IF new = <<>> THEN cols
    ELSE AppendNew(IF \E k \in 1..Len(cols) : cols[k] = Head(new)
                   THEN cols ELSE Append(cols, Head(new)),
                   Tail(new))

\* lines 107-112
InitColumns(d) ==
    LET n == Rows(d)
        fill(c) == IF c \in {"TD_Support_Price", "TD_Resistance_Price"}
                   THEN NaN ELSE 0
        new == {TDCols[k] : k \in 1..Len(TDCols)}
    IN  [columns |-> AppendNew(d.columns, TDCols),
         data |-> [c \in (DOMAIN d.data) \cup new |->
                     IF c \in new THEN [k \in 1..n |-> fill(c)]
                     ELSE d.data[c]]]

\* ------------------------------------------------------------ the bar step

Close(d, k) == At(d, close_col, k)
High(d, k) == At(d, high_col, k)
Low(d, k) == At(d, low_col, k)

\* only the previous bar is compared
BearishFlipPrevOnly(d, k) == PyGt(Close(d, k - 1), Close(d, k - 5))

\* the comparisons are not strict
BearishFlipNonStrict(d, k) ==
    PyGe(Close(d, k - 1), Close(d, k - 5)) /\ PyLe(Close(d, k), Close(d, k - 4))

\* the comparisons are the other way round
BearishFlipInverted(d, k) ==
    PyLt(Close(d, k - 1), Close(d, k - 5)) /\ PyGt(Close(d, k), Close(d, k - 4))

\* line 140: prev close > prev close[4] and current close < close[4]
BearishFlip(d, k) ==
    PyGt(Close(d, k - 1), Close(d, k - 5)) /\ PyLt(Close(d, k), Close(d, k - 4))

\* the comparisons are not strict
BullishFlipNonStrict(d, k) ==
    PyLe(Close(d, k - 1), Close(d, k - 5)) /\ PyGe(Close(d, k), Close(d, k - 4))

\* only the current bar is compared
BullishFlipCurrentOnly(d, k) == PyGt(Close(d, k), Close(d, k - 4))

\* line 147: prev close < prev close[4] and current close > close[4]
BullishFlip(d, k) ==
    PyLt(Close(d, k - 1), Close(d, k - 5)) /\ PyGt(Close(d, k), Close(d, k - 4))

\* the buy setup goes on when the close equals the close 4 bars earlier
BuySetupQualifiesNonStrict(d, k) == PyLe(Close(d, k), Close(d, k - 4))

\* line 155
BuySetupQualifies(d, k) == PyLt(Close(d, k), Close(d, k - 4))

\* line 193
SellSetupQualifies(d, k) == PyGt(Close(d, k), Close(d, k - 4))

\* df.iloc[a:b][c] for b <= len(df): a negative start counts from the end
ILocSlice(d, c, a, b) ==
    LET n == Rows(d)
        lo == IF a < 0 THEN (IF n + a < 0 THEN 0 ELSE n + a) ELSE a
    IN  SubSeq(d.data[c], lo + 1, b)

\* the slice is one bar ahead: it ends with the bar after the current one
\* (with the current one on the last row, where the slice is cut short)
setup_bars_ahead(d, c, k) ==
    ILocSlice(d, c, k - max_setup_count + 2,
              IF k + 2 > Rows(d) THEN Rows(d) ELSE k + 2)

\* the slice starts one bar early
setup_bars_early(d, c, k) == ILocSlice(d, c, k - max_setup_count, k + 1)

\* lines 160 and 198: df.iloc[i - max_setup_count + 1 : i + 1]
setup_bars(d, c, k) == ILocSlice(d, c, k - max_setup_count + 1, k + 1)

SeqMax(s) == CHOOSE x \in {s[k] : k \in 1..Len(s)} : \A k \in 1..Len(s) : s[k] <= x
SeqMin(s) == CHOOSE x \in {s[k] : k \in 1..Len(s)} : \A k \in 1..Len(s) : s[k] >= x

\* only the last bar of the setup is compared with bars 6 and 7
is_buy_setup_perfect_last_bar(lows) ==
    IF Len(lows) < 9 THEN FALSE
    ELSE PyLt(lows[9], lows[6]) /\ PyLt(lows[9], lows[7])

\* lines 296-319, on the low column of the setup bars
is_buy_setup_perfect(lows) ==
    IF Len(lows) < 9 THEN FALSE
    ELSE LET bar_6 == lows[6]
             bar_7 == lows[7]
             bar_8 == lows[8]
             bar_9 == lows[9]
         IN  (PyLt(bar_8, bar_6) /\ PyLt(bar_8, bar_7))
             \/ (PyLt(bar_9, bar_6) /\ PyLt(bar_9, bar_7))

\* lines 322-345, on the high column of the setup bars
is_sell_setup_perfect(highs) ==
    IF Len(highs) < 9 THEN FALSE
    ELSE LET bar_6 == highs[6]
             bar_7 == highs[7]
             bar_8 == highs[8]
             bar_9 == highs[9]
         IN  (PyGt(bar_8, bar_6) /\ PyGt(bar_8, bar_7))
             \/ (PyGt(bar_9, bar_6) /\ PyGt(bar_9, bar_7))

\* line 164
ResistanceOf(d, k) == SeqMax(setup_bars(d, high_col, k))

\* line 202
SupportOf(d, k) == SeqMin(setup_bars(d, low_col, k))

\* bar 9 qualifies as a later countdown bar does, with <=
BuyBar9QualifiesNonStrict(d, k) == PyLe(Close(d, k), Low(d, k - 2))

\* line 171: bar 9 qualifies for the buy countdown
BuyBar9Qualifies(d, k) == PyLt(Close(d, k), Low(d, k - 2))

\* line 209: bar 9 qualifies for the sell countdown
SellBar9Qualifies(d, k) == PyGt(Close(d, k), High(d, k - 2))

\* line 234
BreaksResistance(d, k, res) == PyGt(Close(d, k), res)

\* the comparison is strict, as it is for bar 9
BuyCountdownQualifiesStrict(d, k) == PyLt(Close(d, k), Low(d, k - 2))

\* line 239
BuyCountdownQualifies(d, k) == PyLe(Close(d, k), Low(d, k - 2))

\* a close at the support level breaks it
BreaksSupportNonStrict(d, k, sup) == PyLe(Close(d, k), sup)

\* line 259
BreaksSupport(d, k, sup) == PyLt(Close(d, k), sup)

\* line 264
SellCountdownQualifies(d, k) == PyGe(Close(d, k), High(d, k - 2))

\* the setup is found complete one bar early
SetupCompleteEarly(sc) == sc = max_setup_count - 1

\* lines 158 and 196
SetupComplete(sc) == sc = max_setup_count

\* the countdown is found complete one qualifying bar late
CountdownCompleteLate(cc) == cc > max_countdown_count

\* lines 246 and 271
CountdownComplete(cc) == cc = max_countdown_count

\* the scan state as a record
ScanState(ph, sc, cc, sp, rp) ==
    [current_phase |-> ph, setup_count |-> sc, countdown_count |-> cc,
     support_price |-> sp, resistance_price |-> rp]

Out(s, d) == [s |-> s, df |-> d]

\* the bar that breaks a setup is taken as the first bar of the opposite one
SetupBrokenStartsOpposite(s) ==
    [s EXCEPT !.current_phase =
                  IF s.current_phase = BUY_SETUP THEN SELL_SETUP ELSE BUY_SETUP,
              !.setup_count = 1]

\* a bar that does not qualify pauses the setup, as it pauses a countdown
SetupPaused(s) == s

\* lines 187-188 and 227-228: a setup is broken
SetupBroken(s) == [s EXCEPT !.current_phase = NONE, !.setup_count = 0]

\* the resistance level is kept
BuyCountdownResetKeepsLevel(s) ==
    [s EXCEPT !.current_phase = NONE, !.countdown_count = 0]

\* the phase is left as it is
BuyCountdownResetKeepsPhase(s) ==
    [s EXCEPT !.countdown_count = 0, !.resistance_price = NaN]

\* lines 235-237 and 248-250: a buy countdown is invalidated or complete
BuyCountdownReset(s) ==
    [s EXCEPT !.current_phase = NONE, !.countdown_count = 0,
              !.resistance_price = NaN]

\* the support level is kept
SellCountdownResetKeepsLevel(s) ==
    [s EXCEPT !.current_phase = NONE, !.countdown_count = 0]

\* lines 260-262 and 273-275: a sell countdown is invalidated or complete
SellCountdownReset(s) ==
    [s EXCEPT !.current_phase = NONE, !.countdown_count = 0,
              !.support_price = NaN]

\* a bar that does not qualify restarts the count
BuyCountdownPausedRestarts(s) == [s EXCEPT !.countdown_count = 0]

\* the state takes the tag of the row: the countdown is dropped
BuyCountdownPausedDrops(s) == [s EXCEPT !.current_phase = NONE]

\* lines 251-254: a bar that does not qualify leaves the scan state alone
BuyCountdownPaused(s) == s

\* a bar that does not qualify restarts the count
SellCountdownPausedRestarts(s) == [s EXCEPT !.countdown_count = 0]

\* lines 276-279
SellCountdownPaused(s) == s

\* lines 134-151
FromNone(s, d, k) ==
    IF k >= 5
    THEN IF BearishFlip(d, k)
         THEN Out([s EXCEPT !.current_phase = BUY_SETUP, !.setup_count = 1],
                  SetAt(SetAt(d, "TD_Phase", k, BUY_SETUP), "TD_Setup_Count", k, 1))
         ELSE IF BullishFlip(d, k)
         THEN Out([s EXCEPT !.current_phase = SELL_SETUP, !.setup_count = 1],
                  SetAt(SetAt(d, "TD_Phase", k, SELL_SETUP), "TD_Setup_Count", k, 1))
         ELSE Out(s, d)
    ELSE Out(s, d)

\* lines 154-189
FromBuySetup(s, d, k) ==
    IF BuySetupQualifies(d, k)
    THEN LET sc == s.setup_count + 1
         IN  IF SetupComplete(sc)
             THEN LET is_perfect == is_buy_setup_perfect(setup_bars(d, low_col, k))
                      res == ResistanceOf(d, k)
                      cc == IF BuyBar9Qualifies(d, k) THEN 1 ELSE 0
                      phase == IF is_perfect THEN BUY_SETUP_PERFECT ELSE BUY_SETUP
                  IN  Out([s EXCEPT !.current_phase = BUY_COUNTDOWN,
                                    !.countdown_count = cc,
                                    !.resistance_price = res,
                                    !.setup_count = 0],
                          SetAt(SetAt(SetAt(SetAt(d,
                              "TD_Phase", k, phase),
                              "TD_Setup_Count", k, sc),
                              "TD_Countdown_Count", k, cc),
                              "TD_Resistance_Price", k, res))
             ELSE Out([s EXCEPT !.setup_count = sc],
                      SetAt(SetAt(d, "TD_Phase", k, BUY_SETUP), "TD_Setup_Count", k, sc))
    ELSE Out(SetupBroken(s), SetAt(d, "TD_Phase", k, NONE))

\* lines 192-229
FromSellSetup(s, d, k) ==
    IF SellSetupQualifies(d, k)
    THEN LET sc == s.setup_count + 1
         IN  IF SetupComplete(sc)
             THEN LET is_perfect == is_sell_setup_perfect(setup_bars(d, high_col, k))
                      sup == SupportOf(d, k)
                      cc == IF SellBar9Qualifies(d, k) THEN 1 ELSE 0
                      phase == IF is_perfect THEN SELL_SETUP_PERFECT ELSE SELL_SETUP
                  IN  Out([s EXCEPT !.current_phase = SELL_COUNTDOWN,
                                    !.countdown_count = cc,
                                    !.support_price = sup,
                                    !.setup_count = 0],
                          SetAt(SetAt(SetAt(SetAt(d,
                              "TD_Phase", k, phase),
                              "TD_Setup_Count", k, sc),
                              "TD_Countdown_Count", k, cc),
                              "TD_Support_Price", k, sup))
             ELSE Out([s EXCEPT !.setup_count = sc],
                      SetAt(SetAt(d, "TD_Phase", k, SELL_SETUP), "TD_Setup_Count", k, sc))
    ELSE Out(SetupBroken(s), SetAt(d, "TD_Phase", k, NONE))

\* lines 232-254
FromBuyCountdown(s, d, k) ==
    IF BreaksResistance(d, k, s.resistance_price)
    THEN Out(BuyCountdownReset(s), SetAt(d, "TD_Phase", k, NONE))
    ELSE IF BuyCountdownQualifies(d, k)
    THEN LET cc == s.countdown_count + 1
             written == SetAt(SetAt(SetAt(d,
                            "TD_Phase", k, BUY_COUNTDOWN),
                            "TD_Countdown_Count", k, cc),
                            "TD_Resistance_Price", k, s.resistance_price)
         IN  IF CountdownComplete(cc)
             THEN Out(BuyCountdownReset(s), written)
             ELSE Out([s EXCEPT !.countdown_count = cc], written)
    ELSE Out(BuyCountdownPaused(s),
             SetAt(SetAt(d, "TD_Phase", k, NONE),
                   "TD_Resistance_Price", k, s.resistance_price))

\* lines 257-279
FromSellCountdown(s, d, k) ==
    IF BreaksSupport(d, k, s.support_price)
    THEN Out(SellCountdownReset(s), SetAt(d, "TD_Phase", k, NONE))
    ELSE IF SellCountdownQualifies(d, k)
    THEN LET cc == s.countdown_count + 1
             written == SetAt(SetAt(SetAt(d,
                            "TD_Phase", k, SELL_COUNTDOWN),
                            "TD_Countdown_Count", k, cc),
                            "TD_Support_Price", k, s.support_price)
         IN  IF CountdownComplete(cc)
             THEN Out(SellCountdownReset(s), written)
             ELSE Out([s EXCEPT !.countdown_count = cc], written)
    ELSE Out(SellCountdownPaused(s),
             SetAt(SetAt(d, "TD_Phase", k, NONE),
                   "TD_Support_Price", k, s.support_price))

\* the body of the loop, lines 123-279, for bar k
ProcessBar(s, d, k) ==
    IF k < required_samples
    THEN Out(s, SetAt(d, "TD_Phase", k, NONE))
    ELSE IF s.current_phase = NONE THEN FromNone(s, d, k)
    ELSE IF s.current_phase = BUY_SETUP THEN FromBuySetup(s, d, k)
    ELSE IF s.current_phase = SELL_SETUP THEN FromSellSetup(s, d, k)
    ELSE IF s.current_phase = BUY_COUNTDOWN THEN FromBuyCountdown(s, d, k)
    ELSE IF s.current_phase = SELL_COUNTDOWN THEN FromSellCountdown(s, d, k)
    ELSE Out(s, d)

\* the dictionary has no entries for the two perfect tags: map gives NaN
phase_names_without_perfect(p) ==
    CASE p = NONE -> "None"
      [] p = BUY_SETUP -> "Buy Setup"
      [] p = SELL_SETUP -> "Sell Setup"
      [] p = BUY_COUNTDOWN -> "Buy Countdown"
      [] p = SELL_COUNTDOWN -> "Sell Countdown"
      [] OTHER -> "NaN"

\* lines 282-290
phase_names(p) ==
    CASE p = NONE -> "None"
      [] p = BUY_SETUP -> "Buy Setup"
      [] p = SELL_SETUP -> "Sell Setup"
      [] p = BUY_COUNTDOWN -> "Buy Countdown"
      [] p = SELL_COUNTDOWN -> "Sell Countdown"
      [] p = BUY_SETUP_PERFECT -> "Buy Setup Perfect"
      [] p = SELL_SETUP_PERFECT -> "Sell Setup Perfect"
      [] OTHER -> "NaN"

\* line 291: df["TD_Phase_Name"] = df["TD_Phase"].map(phase_names)
MapPhaseNames(d) ==
    [columns |-> AppendNew(d.columns, <<"TD_Phase_Name">>),
     data |-> [c \in (DOMAIN d.data) \cup {"TD_Phase_Name"} |->
                 IF c = "TD_Phase_Name"
                 THEN [k \in 1..Rows(d) |-> phase_names(d.data["TD_Phase"][k])]
                 ELSE d.data[c]]]

\* ------------------------------------------------------------------- inputs

OHLC == <<"date", open_col, high_col, low_col, close_col>>

\* a frame in the column layout of the tests: date, open (= close), high,
\* low, close
Frame(dates, closes, highs, lows) ==
    [columns |-> OHLC,
     data |-> [c \in {OHLC[k] : k \in 1..Len(OHLC)} |->
                 CASE c = "date" -> dates
                   [] c = open_col -> closes
                   [] c = high_col -> highs
                   [] c = low_col -> lows
                   [] OTHER -> closes]]

\* dates 1..n in ascending order
Ascending(n) == [k \in 1..n |-> k]

\* a frame whose bars have the same wick w above and below the close
Candles(closes, w) ==
    Frame(Ascending(Len(closes)), closes,
          [k \in 1..Len(closes) |-> closes[k] + w],
          [k \in 1..Len(closes) |-> closes[k] - w])

ShortPrices == {BasePrice - 1, BasePrice, BasePrice + 1}

\* every close series of length 0..ShortLen over three price levels
ShortFrames ==
    {Candles(c, 1) : c \in UNION {[1..n -> ShortPrices] : n \in 0..ShortLen}}

Signs == {-1, 0, 1}

\* closes whose comparison with the close 4 bars earlier has sign v1 for the
\* first lead bars from bar 4, then v2 for run bars, then v3; a bar differs
\* from the bar 4 earlier by that sign
TrendCloses(lead, run, v1, v2, v3) ==
    LET g(k) == IF k - 4 < lead THEN v1
                ELSE IF k - 4 < lead + run THEN v2 ELSE v3
        c[k \in 0..(TrendLen - 1)] ==
            IF k < 4 THEN BasePrice ELSE c[k - 4] + g(k)
    IN  [k \in 1..TrendLen |-> c[k - 1]]

TrendFrames ==
    {Candles(TrendCloses(lead, run, v1, v2, v3), w) :
        lead \in 1..MaxLead, run \in 1..MaxRun,
        v1 \in Signs, v2 \in Signs, v3 \in Signs, w \in 0..MaxWick}

\* closes whose comparison with the close 4 bars earlier has sign -v for two
\* bars, then v for run bars, then u for gap bars, then v again to the end:
\* a setup that is interrupted and begins again
ResumedCloses(run, gap, v, u) ==
    LET g(k) == IF k - 4 < 2 THEN 0 - v
                ELSE IF k - 4 < 2 + run THEN v
                ELSE IF k - 4 < 2 + run + gap THEN u ELSE v
        c[k \in 0..(TrendLen - 1)] ==
            IF k < 4 THEN BasePrice ELSE c[k - 4] + g(k)
    IN  [k \in 1..TrendLen |-> c[k - 1]]

ResumedFrames ==
    {Candles(ResumedCloses(run, gap, v, u), 1) :
        run \in 1..MaxRun, gap \in 1..MaxGap, v \in {-1, 1}, u \in Signs}

RECURSIVE Cumulate(_, _)
Cumulate(first, steps) ==
    IF steps = <<>> THEN <<first>>
    ELSE <<first>> \o Cumulate(first + Head(steps), Tail(steps))

\* every non-decreasing close series of length 6..RampLen whose consecutive
\* closes differ by 0, 1 or 2
RampFrames ==
    {Candles(Cumulate(BasePrice, st), 1) :
        st \in UNION {[1..(n - 1) -> {0, 1, 2}] : n \in 6..RampLen}}

\* the 20 closes of the spec's buy-setup scenario, the first 20 closes of
\* test_tomdemark_sequential_countdown_phase
ScenarioCloses ==
    <<105, 106, 107, 108, 109, 110, 111, 112, 113, 114,
      100, 99, 98, 97, 96, 95, 94, 93, 92, 91>>

ScenarioFrames ==
    {Frame(Ascending(Len(ScenarioCloses)), ScenarioCloses,
           [k \in 1..Len(ScenarioCloses) |-> ScenarioCloses[k] + hw],
           [k \in 1..Len(ScenarioCloses) |-> ScenarioCloses[k] - lw]) :
        hw \in 0..MaxWick, lw \in 0..MaxWick}

\* the scenario's closes mirrored: a sell setup on rows 10..18
MirroredCloses ==
    [k \in 1..Len(ScenarioCloses) |->
        SeqMax(ScenarioCloses) + SeqMin(ScenarioCloses) - ScenarioCloses[k]]

\* the scenario and its mirror image with every choice of the lows (of the
\* highs, in the mirror image) of bars 6..9 of the setup, rows 15..18, from
\* levels below every close (above every close)
SetupTailFrames ==
    LET n == Len(ScenarioCloses)
        floor == SeqMin(ScenarioCloses) - 1
        ceiling == SeqMax(ScenarioCloses) + 1
        tail(k) == k \in 16..19
    IN  {Frame(Ascending(n), ScenarioCloses,
               [k \in 1..n |-> ScenarioCloses[k] + 1],
               [k \in 1..n |-> IF tail(k) THEN floor - t[k - 15]
                                ELSE ScenarioCloses[k] - 1]) :
            t \in [1..4 -> 0..TailSpread]}
        \cup
        {Frame(Ascending(n), MirroredCloses,
               [k \in 1..n |-> IF tail(k) THEN ceiling + t[k - 15]
                                ELSE MirroredCloses[k] + 1],
               [k \in 1..n |-> MirroredCloses[k] - 1]) :
            t \in [1..4 -> 0..TailSpread]}

\* the scenario followed by TailLen bars, and its mirror image.  The setup
\* completes on row 18 with resistance 101 (support 104 in the mirror image)
\* and row 19 counts; each appended bar closes below the earlier lows, between
\* them and the level, at the level or beyond it, and the lows (highs) of
\* rows 18 and 19, which the first two appended bars are compared with, are
\* one below the close or far above every close (the code accepts a low
\* above the close)
CountdownFrames ==
    LET n == Len(ScenarioCloses)
        mirror(x) == SeqMax(ScenarioCloses) + SeqMin(ScenarioCloses) - x
        level == ScenarioCloses[11] + 1
        tails == [1..TailLen ->
                     {SeqMin(ScenarioCloses) - 3, level - 6, level, level + 1}]
        far == level + 9
        closes(t) == ScenarioCloses \o t
        lows(t, f) == [k \in 1..(n + TailLen) |->
                         IF k \in {n - 1, n} /\ f[k - n + 2] THEN far
                         ELSE closes(t)[k] - 1]
        highs(t) == [k \in 1..(n + TailLen) |-> closes(t)[k] + 1]
        up(s) == [k \in 1..Len(s) |-> mirror(s[k])]
    IN  {Frame(Ascending(n + TailLen), closes(t), highs(t), lows(t, f)) :
            t \in tails, f \in [1..2 -> BOOLEAN]}
        \cup
        {Frame(Ascending(n + TailLen), up(closes(t)), up(lows(t, f)), up(highs(t))) :
            t \in tails, f \in [1..2 -> BOOLEAN]}

\* the scenario with the high of each of the rows 9..12, the bar before the
\* setup and its first three bars, one above the close or above every other
\* high
SetupHeadFrames ==
    LET n == Len(ScenarioCloses)
        far == SeqMax(ScenarioCloses) + 6
    IN  {Frame(Ascending(n), ScenarioCloses,
               [k \in 1..n |-> IF k \in 10..13 /\ h[k - 9] THEN far
                                ELSE ScenarioCloses[k] + 1],
               [k \in 1..n |-> ScenarioCloses[k] - 1]) :
            h \in [1..4 -> BOOLEAN]}

Inputs ==
    ShortFrames \cup TrendFrames \cup RampFrames \cup ScenarioFrames
        \cup ResumedFrames \cup SetupTailFrames \cup CountdownFrames
        \cup SetupHeadFrames

\* the frames of the repeated-call specification
RepeatFrames ==
    {Candles(TrendCloses(2, run, v1, v2, v3), 1) :
        run \in 1..MaxRun, v1 \in Signs, v2 \in Signs, v3 \in Signs}

\* frames a later call may pass instead: their scans end inside a buy
\* countdown and inside a sell setup
Alternates ==
    {Candles(TrendCloses(2, MaxRun, 1, -1, -1), 1),
     Candles(TrendCloses(2, MaxRun, 0, -1, 1), 1)}

\* dates n..1: the caller passes the bars newest first
Descending(n) == [k \in 1..n |-> n + 1 - k]

\* dates 1..n with those of bars a and b exchanged
Swapped(n, a, b) ==
    [k \in 1..n |-> IF k = a THEN b ELSE IF k = b THEN a ELSE k]

\* the scenario's closes under dates that are ascending, descending or
\* ascending but for two bars; the dates of a frame are distinct
ShuffledFrames ==
    LET n == Len(ScenarioCloses)
        orders == {Ascending(n), Descending(n)}
                     \cup {Swapped(n, a, b) : a \in 1..n, b \in 1..n}
    IN  {Frame(dates, ScenarioCloses,
               [k \in 1..n |-> ScenarioCloses[k] + 1],
               [k \in 1..n |-> ScenarioCloses[k] - 1]) : dates \in orders}

\* d without the columns of S
DropColumns(d, S) ==
    [columns |-> SelectSeq(d.columns, LAMBDA c : c \notin S),
     data |-> [c \in (DOMAIN d.data) \ S |-> d.data[c]]]

\* frames without a date column whose first column, open, holds distinct
\* values: the shuffled frames with the dates as opening prices
NoDateFrames ==
    {DropColumns([f EXCEPT !.data[open_col] = f.data["date"]], {"date"}) :
        f \in ShuffledFrames}

\* frames of 0..MissLen bars that lack at least one of the four price
\* columns, with and without a date column, down to the frame that has no
\* column at all
MissingFrames ==
    LET base == {Candles(c, 1) :
                    c \in UNION {[1..n -> {BasePrice, BasePrice + 1}] :
                                    n \in 0..MissLen}}
        prices == {open_col, high_col, low_col, close_col}
    IN  {DropColumns(f, S) :
            f \in base,
            S \in {T \in SUBSET ({"date"} \cup prices) : T \cap prices # {}}}

AnyFrames == ShuffledFrames \cup NoDateFrames \cup MissingFrames

\* ------------------------------------------------------------------ actions

NoFrame == [columns |-> <<>>, data |-> <<>>]

\* the scan state, lines 115-119, as a record
Locals ==
    ScanState(current_phase, setup_count, countdown_count,
              support_price, resistance_price)

\* the scan state is not initialised: it is what the previous call left
StaleState == Locals

\* lines 115-119
InitialState == ScanState(NONE, 0, 0, NaN, NaN)

SetLocals(s) ==
    /\ current_phase' = s.current_phase
    /\ setup_count' = s.setup_count
    /\ countdown_count' = s.countdown_count
    /\ support_price' = s.support_price
    /\ resistance_price' = s.resistance_price

InitWith(frames) ==
    /\ arg \in frames
    /\ pc = "idle"
    /\ df = NoFrame
    /\ i = 0
    /\ current_phase = NONE
    /\ setup_count = 0
    /\ countdown_count = 0
    /\ support_price = NaN
    /\ resistance_price = NaN
    /\ returned = <<>>
    /\ exc = ""

Init == InitWith(Inputs)

\* lines 83-119 of a call with frame f: copy, sort, validate, initialise
EnterWith(f) ==
    /\ arg' = f
    /\ IF first_column_missing(f)
       THEN /\ pc' = "raised"
            /\ exc' = "IndexError"
            /\ UNCHANGED <<df, i, current_phase, setup_count, countdown_count,
                           support_price, resistance_price, returned>>
       ELSE LET sorted == SortFrame(f)
            IN  IF missing_cols(sorted) # {}
                THEN /\ pc' = "raised"
                     /\ exc' = "ValueError"
                     /\ UNCHANGED <<df, i, current_phase, setup_count,
                                    countdown_count, support_price,
                                    resistance_price, returned>>
                ELSE /\ pc' = "loop"
                     /\ df' = InitColumns(sorted)
                     /\ i' = 0
                     /\ SetLocals(InitialState)
                     /\ UNCHANGED <<returned, exc>>

\* calculate_tomdemark_sequential(arg) is called
Call ==
    /\ pc = "idle"
    /\ EnterWith(arg)

\* one iteration of the loop of line 122
Step ==
    /\ pc = "loop"
    /\ i < Rows(df)
    /\ LET r == ProcessBar(Locals, df, i)
       IN  /\ df' = r.df
           /\ SetLocals(r.s)
    /\ i' = i + 1
    /\ UNCHANGED <<arg, pc, returned, exc>>

\* lines 281-293: the loop is over, name the phases and return
Return ==
    /\ pc = "loop"
    /\ i >= Rows(df)
    /\ df' = MapPhaseNames(df)
    /\ returned' = Append(returned, [arg |-> arg, out |-> df'])
    /\ pc' = "returned"
    /\ UNCHANGED <<arg, i, current_phase, setup_count, countdown_count,
                   support_price, resistance_price, exc>>

\* lines 33-293 as a function of the caller's frame: the frame and the
\* scan state after the first n bars
Entered(d) == Out(InitialState, InitColumns(SortFrame(d)))

RECURSIVE ScanTo(_, _)
ScanTo(d, n) ==
    IF n = 0 THEN Entered(d)
    ELSE LET r == ScanTo(d, n - 1) IN ProcessBar(r.s, r.df, n - 1)

calculate_tomdemark_sequential(d) == MapPhaseNames(ScanTo(d, Rows(d)).df)

Next == Call \/ Step \/ Return

Spec == Init /\ [][Next]_vars

\* after a call has returned the caller calls again, with a frame it has
\* passed before or with another one
CallAgain ==
    /\ pc = "returned"
    /\ Len(returned) < MaxCalls
    /\ \E f \in {returned[k].arg : k \in 1..Len(returned)} \cup Alternates :
          EnterWith(f)

InitRepeat == InitWith(RepeatFrames)

NextRepeat == Call \/ Step \/ Return \/ CallAgain

SpecRepeat == InitRepeat /\ [][NextRepeat]_vars

\* the caller passes a frame in any row order, with or without a date column,
\* with or without the price columns
InitAnyFrame == InitWith(AnyFrames)

SpecAnyFrame == InitAnyFrame /\ [][Next]_vars

\* ------------------------------------------------------------------- claims

\* column c of the working frame
Col(c) == df.data[c]

\* rows of the working frame
N == Rows(df)

Scanning == pc = "loop"
Returned == pc = "returned"

\* C1: for every input and every bar, the emitted TD_Setup_Count is in 0..9
\* and the emitted TD_Countdown_Count is in 0..13, and the scan's own setup
\* and countdown counters are within the same ranges after every bar.
C1_CountersInRange ==
    (Scanning \/ Returned) =>
        /\ setup_count \in 0..9
        /\ countdown_count \in 0..13
        /\ \A k \in 1..N :
              /\ Col("TD_Setup_Count")[k] \in 0..9
              /\ Col("TD_Countdown_Count")[k] \in 0..13

\* a returned frame in which a setup reached 9 and a countdown reached 13
C1_Witness ==
    /\ Returned
    /\ \E k \in 1..N : Col("TD_Setup_Count")[k] = 9
    /\ \E k \in 1..N : Col("TD_Countdown_Count")[k] = 13

\* C2: if the scan is in BUY_SETUP before bar i and close[i] >= close[i-4],
\* or in SELL_SETUP and close[i] <= close[i-4], the step for bar i emits row
\* i with phase NONE and setup count 0 and leaves the scan in NONE with setup
\* counter 0.
C2_SetupDropsAtOnce ==
    [][(/\ Scanning
        /\ i < N
        /\ \/ current_phase = 1 /\ Col("close")[i + 1] >= Col("close")[i - 3]
           \/ current_phase = 2 /\ Col("close")[i + 1] <= Col("close")[i - 3])
       => (/\ df'.data["TD_Phase"][i + 1] = 0
           /\ df'.data["TD_Setup_Count"][i + 1] = 0
           /\ current_phase' = 0
           /\ setup_count' = 0)]_vars

\* the last processed bar closed exactly at the close 4 bars earlier and so
\* ended a buy setup that had counted at least two bars
C2_Witness ==
    /\ Scanning
    /\ i >= 8
    /\ Col("TD_Phase")[i - 1] = 1
    /\ Col("TD_Setup_Count")[i - 1] \in 2..8
    /\ Col("close")[i] = Col("close")[i - 4]
    /\ Col("TD_Phase")[i] = 0
    /\ current_phase = 0

C4_CountdownEndsAtThirteen ==
    (Scanning \/ Returned) =>
        \A k \in 1..N :
            /\ Col("TD_Countdown_Count")[k] <= 13
            /\ Col("TD_Countdown_Count")[k] = 13 =>
                  /\ Col("TD_Phase")[k] \in {3, 4}
                  /\ k = i =>
                        /\ current_phase = 0
                        /\ countdown_count = 0
                        /\ support_price = NaN
                        /\ resistance_price = NaN
                  /\ k < i =>
                        LET r == k + 1
                            buy == /\ Col("close")[r - 1] > Col("close")[r - 5]
                                   /\ Col("close")[r] < Col("close")[r - 4]
                            sell == /\ Col("close")[r - 1] < Col("close")[r - 5]
                                    /\ Col("close")[r] > Col("close")[r - 4]
                        IN  /\ Col("TD_Phase")[r] =
                                  (IF buy THEN 1 ELSE IF sell THEN 2 ELSE 0)
                            /\ Col("TD_Setup_Count")[r] =
                                  (IF buy \/ sell THEN 1 ELSE 0)
                            /\ Col("TD_Countdown_Count")[r] = 0
                            /\ Col("TD_Support_Price")[r] = NaN
                            /\ Col("TD_Resistance_Price")[r] = NaN

\* a countdown reached 13 and the bar after it has been processed
C4_Witness ==
    /\ Scanning
    /\ \E k \in 1..N : Col("TD_Countdown_Count")[k] = 13 /\ k < i

\* C5: the first 6 rows of every output are NONE with both counts 0 and both
\* levels null; a frame of fewer than 6 bars is scanned without an error and
\* every row of it is such a row.
C5_WarmUpRowsAreBlank ==
    /\ Rows(arg) < 6 => pc # "raised"
    /\ (Scanning \/ Returned) =>
          \A k \in 1..N :
              k <= 6 =>
                  /\ Col("TD_Phase")[k] = 0
                  /\ Col("TD_Setup_Count")[k] = 0
                  /\ Col("TD_Countdown_Count")[k] = 0
                  /\ Col("TD_Support_Price")[k] = NaN
                  /\ Col("TD_Resistance_Price")[k] = NaN

\* a frame of 1 to 5 bars has been scanned and returned
C5_Witness ==
    /\ Returned
    /\ N \in 1..5
    /\ Len(returned) = 1

\* C6: a scan starts from phase NONE, counters 0 and unset levels whatever an
\* earlier scan left behind, and two scans of the same frame return identical
\* frames, whether one follows the other or a scan of another frame comes
\* between them.
C6_RepeatedScanIsSame ==
    /\ (Scanning /\ i = 0) =>
          /\ current_phase = 0
          /\ setup_count = 0
          /\ countdown_count = 0
          /\ support_price = NaN
          /\ resistance_price = NaN
    /\ \A a \in 1..Len(returned) : \A b \in 1..Len(returned) :
          returned[a].arg = returned[b].arg => returned[a].out = returned[b].out

\* a frame whose scan ends in NONE after at least one setup row was scanned
\* first and third, and between the two a frame whose scan ends inside a
\* countdown
C6_Witness ==
    /\ Returned
    /\ Len(returned) = 3
    /\ returned[1].arg = returned[3].arg
    /\ returned[2].arg # returned[1].arg
    /\ current_phase = 0
    /\ \E k \in 1..N : Col("TD_Setup_Count")[k] > 0
    /\ \E k \in 1..N : returned[2].out.data["TD_Phase"][k] = 3
    /\ returned[2].out.data["TD_Resistance_Price"][N] # NaN

IsStrictlyIncreasing(c) == \A k \in 1..(Len(c) - 1) : c[k] < c[k + 1]
IsNonDecreasing(c) == \A k \in 1..(Len(c) - 1) : c[k] <= c[k + 1]
IsFlat(c) == \A k \in 1..(Len(c) - 1) : c[k] = c[k + 1]

\* C7: on a strictly increasing close series of at least 6 bars no row has
\* phase BUY_SETUP or BUY_SETUP_PERFECT and the scan is never in BUY_SETUP.
C7_UptrendNeverBuySetup ==
    ((Scanning \/ Returned) /\ N >= 6 /\ IsStrictlyIncreasing(Col("close"))) =>
        /\ current_phase # 1
        /\ \A k \in 1..N : Col("TD_Phase")[k] \notin {1, 5}

\* a strictly increasing series with bars after the warm-up has been scanned
C7_Witness ==
    /\ Returned
    /\ N >= 7
    /\ IsStrictlyIncreasing(Col("close"))
    /\ Len(returned) = 1

\* C8 as stated: some strictly increasing close series of at least 6 bars,
\* one of the monotone frames or the frame passed, makes the scan emit a
\* SELL_SETUP row.
C8_SomeUptrendEntersSellSetup ==
    \E f \in RampFrames \cup {arg} :
        /\ IsStrictlyIncreasing(f.data["close"])
        /\ Rows(f) >= 6
        /\ LET out == calculate_tomdemark_sequential(f)
           IN  \E k \in 1..Rows(out) : out.data["TD_Phase"][k] \in {2, 6}

\* C8, amended: on a close series that never falls (of at least 6 bars) no
\* row has phase SELL_SETUP or SELL_SETUP_PERFECT and the scan is never in
\* SELL_SETUP, however many closes exceed the close 4 bars earlier: the sell
\* flip needs close[i-1] < close[i-5].
C8_UptrendNeverSellSetup ==
    ((Scanning \/ Returned) /\ N >= 6 /\ IsNonDecreasing(Col("close"))) =>
        /\ current_phase # 2
        /\ \A k \in 1..N : Col("TD_Phase")[k] \notin {2, 6}

\* a strictly increasing series has been scanned in which every bar from bar
\* 4 on closes above the close 4 bars earlier, and every row is NONE
C8_Witness ==
    /\ Returned
    /\ N >= 7
    /\ \A k \in 5..N : Col("close")[k] > Col("close")[k - 4]
    /\ IsStrictlyIncreasing(Col("close"))
    /\ \A k \in 1..N : Col("TD_Phase")[k] = 0

\* C9: on a flat close series, of any length and with any highs and lows,
\* every row is NONE with both counts 0 and both levels null, and the scan
\* never leaves NONE.
C9_FlatStaysNone ==
    ((Scanning \/ Returned) /\ IsFlat(Col("close"))) =>
        /\ current_phase = 0
        /\ \A k \in 1..N :
              /\ Col("TD_Phase")[k] = 0
              /\ Col("TD_Setup_Count")[k] = 0
              /\ Col("TD_Countdown_Count")[k] = 0
              /\ Col("TD_Support_Price")[k] = NaN
              /\ Col("TD_Resistance_Price")[k] = NaN

\* a flat series of 30 bars whose highs and lows differ from the close has
\* been scanned
C9_Witness ==
    /\ Returned
    /\ N >= 30
    /\ IsFlat(Col("close"))
    /\ Col("high")[1] > Col("close")[1]
    /\ Col("low")[1] < Col("close")[1]

\* C10: on the 20 closes of the scenario, whatever the highs and lows, rows
\* 0..9 are NONE, row 10 is BUY_SETUP with setup count 1, the setup count
\* grows by one on each following row and is 9 on row 18, and none of the
\* rows 0..18 is a countdown row.
C10_ScenarioCountsToNine ==
    (Returned /\ arg.data["close"] = ScenarioCloses) =>
        /\ \A k \in 1..10 :
              Col("TD_Phase")[k] = 0 /\ Col("TD_Setup_Count")[k] = 0
        /\ Col("TD_Phase")[11] = 1
        /\ \A k \in 11..19 : Col("TD_Setup_Count")[k] = k - 10
        /\ \A k \in 11..18 : Col("TD_Phase")[k] = 1
        /\ Col("TD_Phase")[19] \in {1, 5}
        /\ \A k \in 1..19 : Col("TD_Phase")[k] \notin {3, 4}

\* the scenario has been scanned with bars whose low is below the close, and
\* the bar that completes the setup also counts for the countdown
C10_Witness ==
    /\ Returned
    /\ arg.data["close"] = ScenarioCloses
    /\ Col("low")[1] < Col("close")[1]
    /\ Col("TD_Setup_Count")[19] = 9
    /\ Col("TD_Countdown_Count")[19] = 1

\* the names of the columns of frame f
ColumnSet(f) == {f.columns[k] : k \in 1..Len(f.columns)}

\* frame f lacks at least one of the four price columns
LacksPriceColumn(f) == \E c \in {"open", "high", "low", "close"} : c \notin ColumnSet(f)

\* C11: whenever the frame passed lacks at least one of open, high, low and
\* close, the call ends in the ValueError of the column check, before any bar
\* is scanned and without any output: no working frame, no returned frame.
C11_MissingColumnIsValueError ==
    (pc # "idle" /\ LacksPriceColumn(arg)) =>
        /\ pc = "raised"
        /\ exc = "ValueError"
        /\ df = NoFrame
        /\ i = 0
        /\ returned = <<>>

\* the column the scan is ordered by: the first date-like column of the
\* frame passed, its first column when there is none
KeyColumn(f) ==
    IF \E c \in ColumnSet(f) : c \in {"date", "timestamp"}
    THEN (CHOOSE c \in ColumnSet(f) : c \in {"date", "timestamp"})
    ELSE f.columns[1]

\* C12 as stated: the rows of the output are the caller's bars in the
\* caller's order, whatever their dates.
C12_RowsInCallerOrder ==
    Returned => \A c \in ColumnSet(arg) : Col(c) = arg.data[c]

\* C12, amended: the scan runs on a copy sorted ascending by the date column
\* (by the first column when there is none).  For a frame with distinct
\* keys the output has one row per bar, its keys ascend, each row carries
\* the prices of the bar with that key, and the first row that is not NONE
\* is the first bar from row 6 on at which a flip holds among the closes in
\* key order.
C12_RowsInKeyOrder ==
    (Scanning \/ Returned) =>
        LET key == KeyColumn(arg)
            close == Col("close")
            buy(r) == close[r - 1] > close[r - 5] /\ close[r] < close[r - 4]
            sell(r) == close[r - 1] < close[r - 5] /\ close[r] > close[r - 4]
        IN  /\ N = Rows(arg)
            /\ \A k \in 1..(N - 1) : Col(key)[k] < Col(key)[k + 1]
            /\ \A k \in 1..N : \E j \in 1..N :
                  \A c \in ColumnSet(arg) : Col(c)[k] = arg.data[c][j]
            /\ \A r \in 1..i :
                  (\A k \in 1..(r - 1) : Col("TD_Phase")[k] = 0) =>
                      Col("TD_Phase")[r] =
                          (IF r >= 7 /\ buy(r) THEN 1
                           ELSE IF r >= 7 /\ sell(r) THEN 2 ELSE 0)

\* a frame whose bars were not passed in ascending key order has been
\* scanned and a setup began in it
C12_Witness ==
    /\ Returned
    /\ \E k \in 1..(N - 1) :
          arg.data[KeyColumn(arg)][k] > arg.data[KeyColumn(arg)][k + 1]
    /\ \E k \in 1..N : Col("TD_Phase")[k] \in {1, 2}

\* C13: every row whose TD_Phase is BUY_COUNTDOWN or SELL_COUNTDOWN has a
\* TD_Countdown_Count in 1..13, and every other row has TD_Countdown_Count 0.
C13_CountdownCountOnlyInCountdown ==
    (Scanning \/ Returned) =>
        \A k \in 1..N :
            IF Col("TD_Phase")[k] \in {3, 4}
            THEN Col("TD_Countdown_Count")[k] \in 1..13
            ELSE Col("TD_Countdown_Count")[k] = 0

\* C14: a row has TD_Setup_Count > 0 exactly when its TD_Phase is one of the
\* four setup tags, the count is then in 1..9 and 0 on every other row, and
\* a row tagged BUY_SETUP_PERFECT or SELL_SETUP_PERFECT has count 9.
C14_SetupCountOnlyInSetup ==
    (Scanning \/ Returned) =>
        \A k \in 1..N :
            /\ Col("TD_Setup_Count")[k] > 0 <=> Col("TD_Phase")[k] \in {1, 2, 5, 6}
            /\ Col("TD_Phase")[k] \in {1, 2, 5, 6} => Col("TD_Setup_Count")[k] \in 1..9
            /\ Col("TD_Phase")[k] \notin {1, 2, 5, 6} => Col("TD_Setup_Count")[k] = 0
            /\ Col("TD_Phase")[k] \in {5, 6} => Col("TD_Setup_Count")[k] = 9

\* a returned frame with a setup that completed perfect on its ninth bar,
\* and after it a countdown row and a row tagged NONE
C14_Witness ==
    /\ Returned
    /\ \E k \in 1..N :
          /\ Col("TD_Phase")[k] \in {5, 6}
          /\ Col("TD_Phase")[k - 1] \in {1, 2}
          /\ Col("TD_Setup_Count")[k - 1] = 8
          /\ \E j \in (k + 1)..N : Col("TD_Phase")[j] \in {3, 4}
          /\ \E j \in (k + 1)..N : Col("TD_Phase")[j] = 0

\* row k completes a buy setup / a sell setup
BuySetupCompletesAt(k) ==
    Col("TD_Phase")[k] \in {1, 5} /\ Col("TD_Setup_Count")[k] = 9
SellSetupCompletesAt(k) ==
    Col("TD_Phase")[k] \in {2, 6} /\ Col("TD_Setup_Count")[k] = 9

\* C15: a row's TD_Support_Price is non-null only as the result of a
\* completed buy setup (on that row or an earlier one) and its
\* TD_Resistance_Price only as the result of a completed sell setup.
C15_SupportFromBuyResistanceFromSell ==
    (Scanning \/ Returned) =>
        \A k \in 1..N :
            /\ Col("TD_Support_Price")[k] # NaN =>
                  \E j \in 1..k : BuySetupCompletesAt(j)
            /\ Col("TD_Resistance_Price")[k] # NaN =>
                  \E j \in 1..k : SellSetupCompletesAt(j)

\* C16: a row with TD_Setup_Count = k, 2 <= k <= 9, comes right after a row
\* with TD_Setup_Count = k - 1 of the same direction, and a row with count 1
\* does not continue a setup of its direction: the counts of a setup are
\* 1, 2, 3, ... on consecutive rows.
C16_SetupCountsAreSequential ==
    (Scanning \/ Returned) =>
        \A r \in 1..N :
            LET c == Col("TD_Setup_Count")[r]
                buy(k) == Col("TD_Phase")[k] \in {1, 5}
                sell(k) == Col("TD_Phase")[k] \in {2, 6}
            IN  /\ c >= 2 =>
                      /\ r >= 2
                      /\ Col("TD_Setup_Count")[r - 1] = c - 1
                      /\ buy(r) => Col("TD_Phase")[r - 1] = 1
                      /\ sell(r) => Col("TD_Phase")[r - 1] = 2
                /\ c = 1 =>
                      /\ buy(r) => Col("TD_Phase")[r - 1] \notin {1, 5}
                      /\ sell(r) => Col("TD_Phase")[r - 1] \notin {2, 6}

\* a returned frame in which one setup counted 1..9 on nine consecutive rows
\* and another one broke after at least two bars
C16_Witness ==
    /\ Returned
    /\ \E r \in 1..(N - 8) :
          \A k \in 0..8 : Col("TD_Setup_Count")[r + k] = k + 1
    /\ \E j \in 1..(N - 1) :
          /\ Col("TD_Setup_Count")[j] \in 2..8
          /\ Col("TD_Setup_Count")[j + 1] = 0

\* C17: the returned frame has one row per bar of the frame passed, every
\* TD_Phase is one of 0..6, and every TD_Phase_Name is the name of the row's
\* TD_Phase (None, Buy Setup, Sell Setup, Buy Countdown, Sell Countdown, Buy
\* Setup Perfect, Sell Setup Perfect), never null.
C17_OneNamedPhasePerBar ==
    Returned =>
        LET names == <<"Buy Setup", "Sell Setup", "Buy Countdown",
                       "Sell Countdown", "Buy Setup Perfect",
                       "Sell Setup Perfect">>
        IN  /\ N = Rows(arg)
            /\ \A c \in DOMAIN df.data : Len(Col(c)) = N
            /\ \A k \in 1..N :
                  /\ Col("TD_Phase")[k] \in 0..6
                  /\ Col("TD_Phase_Name")[k] # "NaN"
                  /\ Col("TD_Phase_Name")[k] =
                        (IF Col("TD_Phase")[k] = 0 THEN "None"
                         ELSE names[Col("TD_Phase")[k]])

\* a returned frame of 30 rows with a row tagged perfect, a setup row, a
\* countdown row and a row tagged NONE
C17_Witness ==
    /\ Returned
    /\ N >= 30
    /\ \E k \in 1..N : Col("TD_Phase_Name")[k] \in {"Buy Setup Perfect", "Sell Setup Perfect"}
    /\ \E k \in 1..N : Col("TD_Phase_Name")[k] \in {"Buy Setup", "Sell Setup"}
    /\ \E k \in 1..N : Col("TD_Phase_Name")[k] \in {"Buy Countdown", "Sell Countdown"}
    /\ \E k \in 1..N : Col("TD_Phase_Name")[k] = "None"

\* C18: when the scan is in NONE before bar i, i >= 6, the step for bar i
\* emits BUY_SETUP with setup count 1 (and enters BUY_SETUP with counter 1)
\* exactly when close[i-1] > close[i-5] and close[i] < close[i-4], emits
\* SELL_SETUP with setup count 1 exactly when close[i-1] < close[i-5] and
\* close[i] > close[i-4], and otherwise emits NONE with setup count 0 and
\* stays in NONE; the two conditions never hold on the same bar.
C18_FlipDecidesFromNone ==
    [][(Scanning /\ i < N /\ i >= 6 /\ current_phase = 0) =>
          LET r == i + 1
              close == Col("close")
              buy == close[r - 1] > close[r - 5] /\ close[r] < close[r - 4]
              sell == close[r - 1] < close[r - 5] /\ close[r] > close[r - 4]
              row(ph, sc) == /\ df'.data["TD_Phase"][r] = ph
                             /\ df'.data["TD_Setup_Count"][r] = sc
                             /\ current_phase' = ph
                             /\ setup_count' = sc
          IN  /\ ~(buy /\ sell)
              /\ buy <=> row(1, 1)
              /\ sell <=> row(2, 1)
              /\ ~(buy \/ sell) <=> row(0, 0)]_vars

\* the last bar processed began a sell setup from NONE, after an earlier
\* setup of the frame had broken and bars had passed in NONE without a flip
C18_Witness ==
    /\ Scanning
    /\ i >= 9
    /\ Col("TD_Phase")[i] = 2
    /\ Col("TD_Setup_Count")[i] = 1
    /\ Col("TD_Phase")[i - 1] = 0
    /\ Col("TD_Phase")[i - 2] = 0
    /\ \E k \in 7..(i - 3) : Col("TD_Setup_Count")[k] > 0

C20_PerfectIsBarEightOrNine ==
    (Scanning \/ Returned) =>
        \A r \in 1..N :
            Col("TD_Setup_Count")[r] = 9 =>
                LET low == Col("low")
                    high == Col("high")
                    below == \/ low[r - 1] < low[r - 3] /\ low[r - 1] < low[r - 2]
                             \/ low[r] < low[r - 3] /\ low[r] < low[r - 2]
                    above == \/ high[r - 1] > high[r - 3] /\ high[r - 1] > high[r - 2]
                             \/ high[r] > high[r - 3] /\ high[r] > high[r - 2]
                IN  /\ Col("TD_Phase")[r] \in {1, 2, 5, 6}
                    /\ Col("TD_Phase")[r] \in {1, 5} =>
                          (Col("TD_Phase")[r] = 5 <=> below)
                    /\ Col("TD_Phase")[r] \in {2, 6} =>
                          (Col("TD_Phase")[r] = 6 <=> above)

\* a buy setup completed perfect on a row whose own low is not below the
\* lows of bars 6 and 7: bar 8 alone made it perfect
C20_Witness ==
    /\ Returned
    /\ \E r \in 9..N :
          /\ Col("TD_Setup_Count")[r] = 9
          /\ Col("TD_Phase")[r] = 5
          /\ Col("low")[r] >= Col("low")[r - 3]
          /\ Col("low")[r] >= Col("low")[r - 2]

\* the scan state is left as it is
ScanStateUnchanged ==
    UNCHANGED <<current_phase, setup_count, countdown_count, support_price,
                resistance_price>>

\* C21: while the scan is in BUY_COUNTDOWN, the step for a bar i with
\* close[i] > resistance_price emits row i with phase NONE, countdown count 0
\* and no resistance, and leaves the scan in NONE with countdown counter 0 and
\* the resistance cleared, also when close[i] <= low[i-2].
C21_BreakInvalidatesBuyCountdown ==
    [][(/\ Scanning
        /\ i < N
        /\ current_phase = 3
        /\ Col("close")[i + 1] > resistance_price)
       => (/\ df'.data["TD_Phase"][i + 1] = 0
           /\ df'.data["TD_Countdown_Count"][i + 1] = 0
           /\ df'.data["TD_Resistance_Price"][i + 1] = NaN
           /\ current_phase' = 0
           /\ countdown_count' = 0
           /\ resistance_price' = NaN)]_vars

\* the last bar processed closed above the resistance of the row before it
\* and at or below the low two bars earlier, and the scan is in NONE
C21_Witness ==
    /\ Scanning
    /\ i >= 16
    /\ Col("TD_Resistance_Price")[i - 1] # NaN
    /\ Col("close")[i] > Col("TD_Resistance_Price")[i - 1]
    /\ Col("close")[i] <= Col("low")[i - 2]
    /\ Col("TD_Phase")[i] = 0
    /\ current_phase = 0

C25_LevelGoesWithCountdown ==
    (Scanning \/ Returned) =>
        /\ resistance_price # NaN <=> current_phase = 3
        /\ support_price # NaN <=> current_phase = 4
        /\ \A k \in 1..N :
              Col("TD_Support_Price")[k] = NaN \/ Col("TD_Resistance_Price")[k] = NaN

\* a sell countdown has ended on the last bar processed: the row before it
\* reports a support, the scan is in NONE and has none
C25_Witness ==
    /\ Scanning
    /\ i >= 16
    /\ Col("TD_Support_Price")[i - 1] # NaN
    /\ current_phase = 0
    /\ support_price = NaN
    /\ resistance_price = NaN

\* frames d and e have the same prices on rows lo..hi (from row 0 on)
BarsAgree(d, e, lo, hi) ==
    \A k \in (IF lo < 0 THEN 0 ELSE lo)..hi :
        \A c \in {"open", "high", "low", "close"} : At(d, c, k) = At(e, c, k)

\* the TD_* values of row k of frame d
RowAt(d, k) == [c \in {TDCols[j] : j \in 1..Len(TDCols)} |-> At(d, c, k)]

\* every frame of the family that reaches bar i in the scan state of this
\* scan and has the prices of this frame on bars i-back..i gets the same row
\* i and the same next state from the step for bar i
SameStepWithin(family, back) ==
    \A f \in family :
        Rows(f) = N =>
            LET r == ScanTo(f, i)
            IN  (r.s = Locals /\ BarsAgree(r.df, df, i - back, i)) =>
                    LET a == ProcessBar(r.s, r.df, i)
                        b == ProcessBar(Locals, df, i)
                    IN  a.s = b.s /\ RowAt(a.df, i) = RowAt(b.df, i)

\* C26 as stated: two frames that agree on bars i-5..i and reach bar i in
\* the same scan state get the same row i and the same next state.
C26_StepReadsFiveBarsBack ==
    (Scanning /\ i < N /\ arg \in SetupHeadFrames) =>
        SameStepWithin(SetupHeadFrames, 5)

\* C26, amended: the step for bar i reads the scan state and the bars
\* i-8..i, the 9 bars of a completing setup: two frames that agree on bars
\* i-8..i and reach bar i in the same scan state get the same row i and the
\* same next state, whatever their earlier bars hold.
C26_StepReadsEightBarsBack ==
    (Scanning /\ i < N /\ arg \in SetupHeadFrames) =>
        SameStepWithin(SetupHeadFrames, 8)

\* the scan is about to process the ninth bar of the setup, and another
\* frame with a different high 9 bars back and the same 9 last bars has
\* come to this bar in the same state
C26_Witness ==
    /\ Scanning
    /\ i = 18
    /\ current_phase = 1
    /\ setup_count = 8
    /\ \E f \in SetupHeadFrames :
          /\ f.data["high"][i - 8] # Col("high")[i - 8]
          /\ BarsAgree(f, df, i - 8, i)
          /\ ScanTo(f, i).s = Locals

\* the first n bars of frame f
Prefix(f, n) ==
    [f EXCEPT !.data = [c \in DOMAIN f.data |-> SubSeq(f.data[c], 1, n)]]

\* C27: the step for bar i writes row i and no other row, and naming the
\* phases changes no row; and the frame returned for the first n bars of a
\* frame, for every n, has the rows 0..n-1 of the frame returned for the
\* whole frame: bars that come later change no earlier row.
C27_RowsWrittenOnceInOrder ==
    [][Scanning =>
          /\ \A k \in 0..(N - 1) :
                (i >= N \/ k # i) => RowAt(df', k) = RowAt(df, k)
          /\ i >= N =>
                \A n \in 0..N :
                    LET out == calculate_tomdemark_sequential(Prefix(arg, n))
                    IN  /\ Rows(out) = n
                        /\ \A k \in 0..(n - 1) :
                              /\ RowAt(out, k) = RowAt(df', k)
                              /\ At(out, "TD_Phase_Name", k) =
                                    At(df', "TD_Phase_Name", k)]_vars

\* a frame has been returned in which a setup completed perfect on a row
\* that is not the last and a countdown row follows
C27_Witness ==
    /\ Returned
    /\ \E k \in 1..(N - 1) :
          /\ Col("TD_Setup_Count")[k] = 9
          /\ Col("TD_Phase")[k] = 5
          /\ Col("TD_Phase")[k + 1] = 3

\* C28: when row i-1 is in a buy setup that has not completed and close[i] >=
\* close[i-4], row i is NONE, whether or not bar i satisfies the sell flip,
\* and row i+1 is not SELL_SETUP; when row i-1 is in a sell setup that has
\* not completed and close[i] <= close[i-4], row i is NONE and row i+1 is
\* not BUY_SETUP.
C28_BreakStartsNoOppositeSetup ==
    (Scanning \/ Returned) =>
        \A r \in 2..i :
            LET close == Col("close")
                phase == Col("TD_Phase")
                open(ph) == phase[r - 1] = ph /\ Col("TD_Setup_Count")[r - 1] < 9
            IN  /\ (open(1) /\ close[r] >= close[r - 4]) =>
                      /\ phase[r] = 0
                      /\ r < i => phase[r + 1] \notin {2, 6}
                /\ (open(2) /\ close[r] <= close[r - 4]) =>
                      /\ phase[r] = 0
                      /\ r < i => phase[r + 1] \notin {1, 5}

\* a buy setup was broken by a bar that satisfies the sell flip, the next
\* bar closed above the close 4 bars earlier too, and both rows are NONE
C28_Witness ==
    /\ Scanning
    /\ \E r \in 7..(i - 1) :
          /\ Col("TD_Phase")[r - 1] = 1
          /\ Col("TD_Setup_Count")[r - 1] < 9
          /\ Col("close")[r - 1] < Col("close")[r - 5]
          /\ Col("close")[r] > Col("close")[r - 4]
          /\ Col("close")[r + 1] > Col("close")[r - 3]
          /\ Col("TD_Phase")[r] = 0
          /\ Col("TD_Phase")[r + 1] = 0

\* row e ends the countdown that the setup completed on row j began: its
\* close is beyond the level of row j, or it is the 13th countdown row
EndsCountdownOf(j, e) ==
    \/ Col("TD_Countdown_Count")[e] = 13
    \/ BuySetupCompletesAt(j) /\ Col("close")[e] > Col("TD_Resistance_Price")[j]
    \/ SellSetupCompletesAt(j) /\ Col("close")[e] < Col("TD_Support_Price")[j]

\* C29: every row after the row j that completes a setup, up to and
\* including the row that ends the countdown (a close beyond the level, or
\* the 13th countdown row), has setup count 0 and a phase that is NONE or
\* the tag of that countdown, whatever its closes; while no processed row
\* has ended the countdown the scan is in that countdown with setup counter
\* 0, to the end of the frame.
C29_NoSetupDuringCountdown ==
    (Scanning \/ Returned) =>
        \A j \in 1..i :
            (BuySetupCompletesAt(j) \/ SellSetupCompletesAt(j)) =>
                LET tag == IF BuySetupCompletesAt(j) THEN 3 ELSE 4
                    ends == {e \in (j + 1)..i : EndsCountdownOf(j, e)}
                    last == IF ends = {} THEN i
                            ELSE CHOOSE e \in ends : \A h \in ends : e <= h
                IN  /\ \A r \in (j + 1)..last :
                          /\ Col("TD_Setup_Count")[r] = 0
                          /\ Col("TD_Phase")[r] \in {0, tag}
                    /\ ends = {} => current_phase = tag /\ setup_count = 0

\* a buy countdown is active at the end of a frame after a row on which the
\* closes satisfy the sell flip and a row on which they satisfy the buy flip
C29_Witness ==
    /\ Returned
    /\ current_phase = 3
    /\ \E j \in 1..N :
          /\ BuySetupCompletesAt(j)
          /\ \E r \in (j + 1)..(N - 1) :
                /\ Col("close")[r - 1] < Col("close")[r - 5]
                /\ Col("close")[r] > Col("close")[r - 4]
                /\ Col("close")[r + 1] < Col("close")[r - 3]
                /\ Col("TD_Phase")[r] = 0
                /\ Col("TD_Phase")[r + 1] = 3

\* C30: every row at an index below 14 has a setup count below 9, countdown
\* count 0 and no support or resistance, and the scan comes to the bar that
\* may complete a setup (setup counter 8) at index 14 or later, so that the
\* 9 bars i-8..i of the window are all bars after the warm-up.
C30_NoCompletionBeforeBarFourteen ==
    (Scanning \/ Returned) =>
        /\ \A k \in 1..N :
              k <= 14 =>
                  /\ Col("TD_Setup_Count")[k] < 9
                  /\ Col("TD_Countdown_Count")[k] = 0
                  /\ Col("TD_Support_Price")[k] = NaN
                  /\ Col("TD_Resistance_Price")[k] = NaN
        /\ (i < N /\ setup_count = 8) => i >= 14 /\ i - 8 >= 6

\* a setup that began on the first bar after the warm-up, index 6, has
\* completed on index 14
C30_Witness ==
    /\ Scanning
    /\ i = 15
    /\ Col("TD_Setup_Count")[7] = 1
    /\ Col("TD_Setup_Count")[15] = 9
    /\ current_phase \in {3, 4}

====
